---- MODULE Spec2Model ----
(***************************************************************************)
(* Model of the signed-URL cache of src/server.js: the CacheService class  *)
(* (two tiers: the in-process node-cache `signedUrlCache` and the optional *)
(* Redis client `redisClient`), the /clear-cache endpoint, the issuance    *)
(* handlers GET /getSignedUrl and POST /getBatchSignedUrls (per item), and *)
(* POST /api/signed-urls.                                                  *)
(*                                                                         *)
(* Strings are sequences of one-character strings, so that key.includes(s) *)
(* and file.replace(/\.\./g,'').trim() are computed character by character.*)
(* Time is counted in units of 5 minutes (300000 ms): Date.now() is `now`. *)
(***************************************************************************)
EXTENDS Integers, Sequences, FiniteSets, TLC

VARIABLES
    now,          \* Date.now(), in units of 5 minutes
    cfg,          \* process.env read once at start: [ttl, expiry, maxKeys, redisUrl]
    mem,          \* signedUrlCache.data: resident key -> [v: value, t: expiry instant]
    stats,        \* signedUrlCache.stats: [hits, misses]
    redisClient,  \* "null" | "connecting" (non-null, isReady false) | "ready"
    redisData,    \* the Redis server's keys: key -> [v: value, t: expiry instant]
    lastOp,       \* the last Cache Service / endpoint call and its result (observation)
    reads,        \* Cache Service reads since the statistics were last zero: [H, M]
    req,          \* per request slot: the handler's position and locals
    batch,        \* the POST /getBatchSignedUrls request in progress: its loop and results
    urlBatch,     \* the processUrlBatch call in progress: its generateSignedUrl calls
    deletedAt     \* per cache key: deletedAt of the last success response of /deleteFile

vars == <<now, cfg, mem, stats, redisClient, redisData, lastOp, reads, req, batch,
          urlBatch, deletedAt>>

-----------------------------------------------------------------------------
(* Bounds of the model *)

MaxTime == 2          \* the clock stops advancing here
MaxLookups == 2       \* cap on signedUrlCache hits + misses between two flushAll
MaxBatch == 2         \* longest entries / keys list passed to a batch call
MaxApiLookups == 3    \* the same cap for the server in local-only mode
MaxFiles == 3         \* longest files list of a batch request

(* Configuration of src/server.js, in the model's units *)

bufferTime == 1       \* 5 * 60 * 1000 ms

CACHE_TTL == cfg.ttl                \* process.env.CACHE_TTL_SECONDS
SIGNED_URL_EXPIRY == cfg.expiry     \* process.env.SIGNED_URL_EXPIRY_SECONDS
MAX_CACHE_KEYS == cfg.maxKeys       \* process.env.MAX_CACHE_KEYS

-----------------------------------------------------------------------------
(* Strings *)

RECURSIVE RemoveDotDot(_)
\* file.replace(/\.\./g, ''): every non-overlapping "..", left to right, one pass
RemoveDotDot(s) ==
    IF Len(s) < 2 THEN s
    ELSE IF s[1] = "." /\ s[2] = "." THEN RemoveDotDot(SubSeq(s, 3, Len(s)))
    ELSE <<s[1]>> \o RemoveDotDot(Tail(s))

RECURSIVE TrimStart(_)
TrimStart(s) == IF s # <<>> /\ s[1] = " " THEN TrimStart(Tail(s)) ELSE s

RECURSIVE TrimEnd(_)
TrimEnd(s) ==
    IF s # <<>> /\ s[Len(s)] = " " THEN TrimEnd(SubSeq(s, 1, Len(s) - 1)) ELSE s

\* String.prototype.trim
Trim(s) == TrimEnd(TrimStart(s))

\* file.replace(/\.\./g, '').trim()
Sanitize(file) == Trim(RemoveDotDot(file))

\* a prefix test in place of the substring test
IncludesAtStartOnly(key, pattern) ==
    Len(pattern) <= Len(key) /\ SubSeq(key, 1, Len(pattern)) = pattern

\* key.includes(pattern)
Includes(key, pattern) ==
    \E i \in 0..(Len(key) - Len(pattern)) : SubSeq(key, i + 1, i + Len(pattern)) = pattern

R2_BUCKET == <<"B">>
OpGet == <<"g", "e", "t">>

\* a key derivation that also stamps the key with the clock
generateCacheKeyStamped(bucket, key, operation) ==
    <<"r", "2", ":">> \o operation \o <<":">> \o bucket \o <<":">> \o key
        \o <<ToString(now)>>

\* `r2:${operation}:${bucket}:${key}`
generateCacheKey(bucket, key, operation) ==
    <<"r", "2", ":">> \o operation \o <<":">> \o bucket \o <<":">> \o key

-----------------------------------------------------------------------------
(* Cached values.  CacheService stores strings: JSON.stringify(response)   *)
(* from the issuance handlers, the bare URL from /api/signed-urls.         *)

Null == [kind |-> "null", url |-> <<>>, file |-> <<>>, expiresAt |-> 0]

\* the URL returned by getSignedUrl(s3Client, command, ...) for `file`, signed at `at`
SignedUrl(file, at) == <<file, at>>

\* JSON.stringify(response) of the response built by the issuance handlers
Stringify(response) ==
    [kind |-> "json", url |-> response.signedUrl, file |-> response.file,
     expiresAt |-> response.expiresAt]

\* JSON.parse succeeds on the strings JSON.stringify wrote; a bare URL is no JSON text
ParseThrows(v) == v.kind # "json"

\* JSON.parse(cachedResponse)
Parse(v) == [signedUrl |-> v.url, file |-> v.file, expiresAt |-> v.expiresAt]

\* a bare URL string, as /api/signed-urls caches it
UrlString(url) == [kind |-> "url", url |-> url, file |-> <<>>, expiresAt |-> 0]

\* if (cached): null and undefined are falsy, a non-empty string is truthy
Truthy(v) == v.kind # "null"

-----------------------------------------------------------------------------
(* Local tier: node-cache with stdTTL, maxKeys, deleteOnExpire              *)

Keys(m) == DOMAIN m

Remove(m, key) == [k \in DOMAIN m \ {key} |-> m[k]]

Put(m, key, e) == [k \in DOMAIN m \cup {key} |-> IF k = key THEN e ELSE m[k]]

\* node-cache _check: an entry is expired once its instant t lies before Date.now()
Expired(e, t) == e.t < t

\* signedUrlCache.get(key): [val, mem, stats]
LocalGet(m, st, key, t) ==
    IF key \in DOMAIN m /\ ~Expired(m[key], t)
    THEN [val |-> m[key].v, mem |-> m, stats |-> [st EXCEPT !.hits = @ + 1]]
    ELSE [val |-> Null, mem |-> Remove(m, key), stats |-> [st EXCEPT !.misses = @ + 1]]

\* a ceiling test that lets one entry too many in
LocalSetThrowsPastCeiling(m) == Cardinality(DOMAIN m) > MAX_CACHE_KEYS

\* signedUrlCache.set throws ECACHEFULL when stats.keys >= maxKeys
LocalSetThrows(m) == Cardinality(DOMAIN m) >= MAX_CACHE_KEYS

\* signedUrlCache.set(key, value, ttl), when it does not throw
LocalSet(m, key, value, ttl, t) == Put(m, key, [v |-> value, t |-> t + ttl])

\* signedUrlCache.del(key)
LocalDel(m, key) == Remove(m, key)

\* node-cache's periodic _checkData (checkperiod): expired entries are deleted
LocalSweep(m, t) == [k \in {x \in DOMAIN m : ~Expired(m[x], t)} |-> m[k]]

-----------------------------------------------------------------------------
(* Distributed tier: the Redis server behind redisClient                   *)

\* a test that takes a dropped (null) client for a ready one
IsReadyOnceConnected(client) == client # "connecting"

\* redisClient && redisClient.isReady
IsReady(client) == client = "ready"

\* redisClient.get(key): the value while the key's SETEX ttl has not run out
RedisGet(rd, key, t) ==
    IF key \in DOMAIN rd /\ t < rd[key].t THEN rd[key].v ELSE Null

\* redisClient.setEx(key, ttl, value)
RedisSetEx(rd, key, value, ttl, t) == Put(rd, key, [v |-> value, t |-> t + ttl])

\* redisClient.del(key)
RedisDel(rd, key) == Remove(rd, key)

-----------------------------------------------------------------------------
(* CacheService.  `ts` is the state of the two tiers, [mem, stats,         *)
(* redisData]; `client` is redisClient at the call; `fail` says that the   *)
(* awaited Redis command rejects; `t` is Date.now().                       *)

Tiers == [mem |-> mem, stats |-> stats, redisData |-> redisData]

\* CacheService.get(cacheKey): [val, ts, tier]
CacheServiceGet(ts, client, fail, key, t) ==
    IF IsReady(client) /\ fail
    THEN [val |-> Null, ts |-> ts, tier |-> "error"]             \* catch: return null
    ELSE IF IsReady(client) /\ Truthy(RedisGet(ts.redisData, key, t))
    THEN [val |-> RedisGet(ts.redisData, key, t), ts |-> ts, tier |-> "redis"]
    ELSE LET r == LocalGet(ts.mem, ts.stats, key, t)
         IN  [val |-> r.val,
              ts |-> [ts EXCEPT !.mem = r.mem, !.stats = r.stats],
              tier |-> IF Truthy(r.val) THEN "memory" ELSE "miss"]

\* a set that sends setEx without testing redisClient first
CacheServiceSetUnguarded(ts, client, fail, key, value, ttl, t) ==
    IF fail
    THEN ts
    ELSE LET rd == RedisSetEx(ts.redisData, key, value, ttl, t)
         IN  IF LocalSetThrows(ts.mem)
             THEN [ts EXCEPT !.redisData = rd]
             ELSE [ts EXCEPT !.redisData = rd,
                             !.mem = LocalSet(ts.mem, key, value, ttl, t)]

\* CacheService.set(cacheKey, value, ttl): the tiers afterwards
CacheServiceSet(ts, client, fail, key, value, ttl, t) ==
    IF IsReady(client) /\ fail
    THEN ts                                                      \* setEx rejects: catch
    ELSE LET rd == IF IsReady(client)
                   THEN RedisSetEx(ts.redisData, key, value, ttl, t)
                   ELSE ts.redisData
         IN  IF LocalSetThrows(ts.mem)
             THEN [ts EXCEPT !.redisData = rd]                   \* ECACHEFULL: catch
             ELSE [ts EXCEPT !.redisData = rd,
                             !.mem = LocalSet(ts.mem, key, value, ttl, t)]

\* CacheService.del(cacheKey): the tiers afterwards
CacheServiceDel(ts, client, fail, key) ==
    IF IsReady(client) /\ fail
    THEN ts                                                      \* del rejects: catch
    ELSE [ts EXCEPT !.redisData = IF IsReady(client) THEN RedisDel(@, key) ELSE @,
                    !.mem = LocalDel(@, key)]

RECURSIVE RedisSetAll(_, _, _, _)
\* the pipeline's setEx commands, in order
RedisSetAll(rd, entries, ttl, t) ==
    IF entries = <<>> THEN rd
    ELSE RedisSetAll(RedisSetEx(rd, Head(entries).key, Head(entries).value, ttl, t),
                     Tail(entries), ttl, t)

RECURSIVE LocalSetAll(_, _, _, _)
\* entries.forEach(signedUrlCache.set): [mem, threw], stopping at the first throw
LocalSetAll(m, entries, ttl, t) ==
    IF entries = <<>> THEN [mem |-> m, threw |-> FALSE]
    ELSE IF LocalSetThrows(m) THEN [mem |-> m, threw |-> TRUE]
    ELSE LocalSetAll(LocalSet(m, Head(entries).key, Head(entries).value, ttl, t),
                     Tail(entries), ttl, t)

RECURSIVE SetEach(_, _, _, _, _, _)
\* for (const { key, value } of entries) await this.set(key, value, ttl)
SetEach(ts, client, fails, entries, ttl, t) ==
    IF entries = <<>> THEN ts
    ELSE SetEach(CacheServiceSet(ts, client, Head(fails), Head(entries).key,
                                 Head(entries).value, ttl, t),
                 client, Tail(fails), Tail(entries), ttl, t)

\* CacheService.setBatch(entries, ttl): the tiers afterwards.  `pipeFail`: exec()
\* rejects, after the first `applied` commands took effect; `fails`: which of the
\* fallback's per-entry setEx calls reject.
CacheServiceSetBatch(ts, client, pipeFail, applied, fails, entries, ttl, t) ==
    LET usePipe == IsReady(client) /\ Len(entries) > 0
    IN  IF usePipe /\ pipeFail
        THEN SetEach([ts EXCEPT !.redisData =
                         RedisSetAll(@, SubSeq(entries, 1, applied), ttl, t)],
                     client, fails, entries, ttl, t)
        ELSE LET rd == IF usePipe THEN RedisSetAll(ts.redisData, entries, ttl, t)
                       ELSE ts.redisData
                 loc == LocalSetAll(ts.mem, entries, ttl, t)
                 ts1 == [ts EXCEPT !.redisData = rd, !.mem = loc.mem]
             IN  IF loc.threw THEN SetEach(ts1, client, fails, entries, ttl, t)
                 ELSE ts1

\* result[1] of a reply of pipeline.exec(): node-redis 4 replies with the bare
\* value, a string or null, so the index selects that string's second character
\* (`"` of a stringified response, `t` of an https URL); null && ... is null
ReplyAt1(reply) ==
    IF ~Truthy(reply) THEN Null
    ELSE [kind |-> "char", url |-> <<IF reply.kind = "json" THEN "\"" ELSE "t">>,
          file |-> <<>>, expiresAt |-> 0]

RECURSIVE PipelineHits(_, _, _, _)
\* cacheKeys.forEach((key, index) => ...) over the pipeline's replies: the results Map
PipelineHits(rd, keys, t, results) ==
    IF keys = <<>> THEN results
    ELSE LET found == ReplyAt1(RedisGet(rd, Head(keys), t))
         IN  PipelineHits(rd, Tail(keys), t,
                          IF Truthy(found) THEN Put(results, Head(keys), found)
                          ELSE results)

RECURSIVE MemoryFill(_, _, _, _, _)
\* cacheKeys.forEach(key => if (!results.has(key)) signedUrlCache.get(key) ...)
MemoryFill(keys, results, m, st, t) ==
    IF keys = <<>> THEN [results |-> results, mem |-> m, stats |-> st]
    ELSE IF Head(keys) \in DOMAIN results THEN MemoryFill(Tail(keys), results, m, st, t)
    ELSE LET r == LocalGet(m, st, Head(keys), t)
         IN  MemoryFill(Tail(keys),
                        IF Truthy(r.val) THEN Put(results, Head(keys), r.val) ELSE results,
                        r.mem, r.stats, t)

RECURSIVE GetEach(_, _, _, _, _, _)
\* for (const key of cacheKeys) { value = await this.get(key); if (value) results.set }
GetEach(ts, client, fails, keys, t, results) ==
    IF keys = <<>> THEN [results |-> results, ts |-> ts]
    ELSE LET g == CacheServiceGet(ts, client, Head(fails), Head(keys), t)
         IN  GetEach(g.ts, client, Tail(fails), Tail(keys), t,
                     IF Truthy(g.val) THEN Put(results, Head(keys), g.val) ELSE results)

\* CacheService.getBatch(cacheKeys): [results, ts].  `pipeFail`: exec() rejects;
\* `clientAfter`: redisClient as the fallback's gets find it; `fails`: which of the
\* fallback's per-key get commands reject.
CacheServiceGetBatch(ts, client, pipeFail, clientAfter, fails, keys, t) ==
    LET usePipe == IsReady(client) /\ Len(keys) > 0
    IN  IF usePipe /\ pipeFail
        THEN GetEach(ts, clientAfter, fails, keys, t, <<>>)               \* catch
        ELSE LET hits == IF usePipe THEN PipelineHits(ts.redisData, keys, t, <<>>)
                         ELSE <<>>
                 r == MemoryFill(keys, hits, ts.mem, ts.stats, t)
             IN  [results |-> r.results,
                  ts |-> [ts EXCEPT !.mem = r.mem, !.stats = r.stats]]

\* memoryStats.hits / (memoryStats.hits + memoryStats.misses) || 0, as a fraction
HitRate(st) ==
    IF st.hits + st.misses = 0 \/ st.hits = 0
    THEN [num |-> 0, den |-> 1]                                  \* NaN || 0, 0 || 0
    ELSE [num |-> st.hits, den |-> st.hits + st.misses]

\* CacheService.getStats()
getStats ==
    [memory |-> [keys |-> Cardinality(DOMAIN mem), hits |-> stats.hits,
                 misses |-> stats.misses, hitRate |-> HitRate(stats)],
     redis |-> IF IsReady(redisClient) THEN "connected" ELSE "disconnected"]

\* /clear-cache, pattern branch: the keys signedUrlCache.keys().filter(includes) selects
MatchingKeys(m, pattern) == {k \in Keys(m) : Includes(k, pattern)}

\* matchingKeys.forEach(key => signedUrlCache.del(key))
ClearPattern(m, pattern) == [k \in Keys(m) \ MatchingKeys(m, pattern) |-> m[k]]

-----------------------------------------------------------------------------
(* Inputs *)

\* process.env at start, in the model's units: a CACHE_TTL below the signature's
\* lifetime minus the buffer (as the defaults 3600 s / 7200 s are), and one above it
Configs ==
    [ttl : {1, 3}, expiry : {3}, maxKeys : {1, 2}, redisUrl : BOOLEAN]

Files == {<<"a">>, <<"a", "b">>, <<"b">>}

KeyOf(file) == generateCacheKey(R2_BUCKET, file, OpGet)

\* the response the issuance handlers build for `file` when the signing call, made at
\* `at`, returns at `t`
Response(file, at, t) ==
    [signedUrl |-> SignedUrl(file, at), file |-> file,
     expiresAt |-> t + SIGNED_URL_EXPIRY]

Patterns == {<<>>, <<"a">>, <<"a", "b">>, <<":", "b">>, <<"b", "a">>}

Procs == {1, 2}

\* the slot of a client that sends its requests one after the other
Serial == {1}

Idle ==
    [pc |-> "idle", kind |-> "none", file |-> <<>>, key |-> <<>>, signedAt |-> 0]

\* no batch request is in the handler
NoBatch ==
    [pc |-> "idle", files |-> <<>>, size |-> [type |-> "number", n |-> 0], i |-> 0,
     wave |-> <<>>, task |-> <<>>, out |-> <<>>, results |-> <<>>, errors |-> <<>>,
     status |-> 0]

\* no processUrlBatch call is running
NoUrlBatch == [pc |-> "idle", calls |-> <<>>]

\* the step belongs to neither a batch request nor a processUrlBatch call
Quiet == UNCHANGED <<batch, urlBatch, deletedAt>>

NoOp ==
    [op |-> "none", pattern |-> <<>>, cleared |-> 0, kind |-> "none", key |-> <<>>,
     status |-> 0, fromCache |-> FALSE, signedUrl |-> <<>>, expiresAt |-> 0,
     signed |-> FALSE]

-----------------------------------------------------------------------------
(* Environment: the clock, node-cache's sweep, the Redis connection        *)

\* the Redis server drops a key when its SETEX ttl has run out
RedisExpire(rd, t) == [k \in {x \in DOMAIN rd : t < rd[x].t} |-> rd[k]]

Tick ==
    /\ now < MaxTime
    /\ now' = now + 1
    /\ redisData' = RedisExpire(redisData, now + 1)
    /\ lastOp' = NoOp
    /\ UNCHANGED <<cfg, mem, stats, redisClient, reads, req>>

\* node-cache checkperiod timer
Sweep ==
    /\ mem' = LocalSweep(mem, now)
    /\ mem' # mem
    /\ lastOp' = NoOp
    /\ UNCHANGED <<now, cfg, stats, redisClient, redisData, reads, req>>

\* redisClient.connect() resolves: isReady becomes true
RedisConnect ==
    /\ redisClient = "connecting"
    /\ redisClient' = "ready"
    /\ lastOp' = NoOp
    /\ UNCHANGED <<now, cfg, mem, stats, redisData, reads, req>>

\* redisClient.on('error') and connect().catch: redisClient = null
RedisError ==
    /\ redisClient # "null"
    /\ redisClient' = "null"
    /\ lastOp' = NoOp
    /\ UNCHANGED <<now, cfg, mem, stats, redisData, reads, req>>

SetTiers(ts) ==
    /\ mem' = ts.mem
    /\ stats' = ts.stats
    /\ redisData' = ts.redisData

\* a Redis command can only reject when one is sent
MayFail(fail) == fail => IsReady(redisClient)

LookupsLeft == stats.hits + stats.misses < MaxLookups /\ reads.H + reads.M < MaxLookups

-----------------------------------------------------------------------------
(* Calls of the CacheService API and of /clear-cache                        *)

CsGet(key, fail) ==
    /\ MayFail(fail)
    /\ LookupsLeft
    /\ LET r == CacheServiceGet(Tiers, redisClient, fail, key, now)
       IN  /\ SetTiers(r.ts)
           /\ reads' = IF Truthy(r.val) THEN [reads EXCEPT !.H = @ + 1]
                       ELSE [reads EXCEPT !.M = @ + 1]
    /\ lastOp' = NoOp
    /\ UNCHANGED <<now, cfg, redisClient, req>>

CsSet(key, value, fail) ==
    /\ MayFail(fail)
    /\ SetTiers(CacheServiceSet(Tiers, redisClient, fail, key, value, CACHE_TTL, now))
    /\ lastOp' = NoOp
    /\ UNCHANGED <<now, cfg, redisClient, reads, req>>

CsDel(key, fail) ==
    /\ MayFail(fail)
    /\ SetTiers(CacheServiceDel(Tiers, redisClient, fail, key))
    /\ lastOp' = NoOp
    /\ UNCHANGED <<now, cfg, redisClient, reads, req>>

CsSetBatch(entries, pipeFail, applied, fails) ==
    /\ MayFail(pipeFail)
    /\ \A i \in 1..Len(fails) : MayFail(fails[i])
    /\ ~pipeFail => applied = 0
    /\ SetTiers(CacheServiceSetBatch(Tiers, redisClient, pipeFail, applied, fails,
                                     entries, CACHE_TTL, now))
    /\ lastOp' = NoOp
    /\ UNCHANGED <<now, cfg, redisClient, reads, req>>

\* setBatch while the connection drops: exec() rejects after `applied` commands,
\* the client's 'error' handler has set redisClient = null, and the fallback's
\* sets find no client
CsSetBatchDropped(entries, applied) ==
    /\ IsReady(redisClient)
    /\ SetTiers(SetEach([Tiers EXCEPT !.redisData =
                             RedisSetAll(@, SubSeq(entries, 1, applied), CACHE_TTL, now)],
                        "null", [i \in 1..Len(entries) |-> FALSE], entries,
                        CACHE_TTL, now))
    /\ redisClient' = "null"
    /\ lastOp' = NoOp
    /\ UNCHANGED <<now, cfg, reads, req>>

\* the keys of the list that the results Map holds / lacks
Found(keys, results) == {i \in 1..Len(keys) : keys[i] \in DOMAIN results}

\* CacheService.getBatch(cacheKeys); `dropped`: the connection drops while exec() is
\* awaited, so exec() rejects and the 'error' handler sets redisClient = null
CsGetBatch(keys, pipeFail, dropped, fails) ==
    /\ MayFail(pipeFail)
    /\ dropped => pipeFail
    /\ \A i \in 1..Len(fails) : fails[i] => (IsReady(redisClient) /\ ~dropped)
    /\ stats.hits + stats.misses + Len(keys) <= MaxLookups
    /\ reads.H + reads.M + Len(keys) <= MaxLookups
    /\ LET after == IF dropped THEN "null" ELSE redisClient
           r == CacheServiceGetBatch(Tiers, redisClient, pipeFail, after, fails, keys, now)
           n == Cardinality(Found(keys, r.results))
       IN  /\ SetTiers(r.ts)
           /\ redisClient' = after
           /\ reads' = [H |-> reads.H + n, M |-> reads.M + Len(keys) - n]
           /\ lastOp' = [NoOp EXCEPT !.op = "getBatch", !.cleared = n]
    /\ UNCHANGED <<now, cfg, req>>

\* app.post('/clear-cache'); an empty (falsy) pattern clears everything
ClearCache(pattern) ==
    /\ IF pattern # <<>>
       THEN /\ mem' = ClearPattern(mem, pattern)
            /\ lastOp' = [NoOp EXCEPT !.op = "clearPattern", !.pattern = pattern,
                                      !.cleared = Cardinality(MatchingKeys(mem, pattern))]
            /\ UNCHANGED <<stats, redisData, reads>>
       ELSE /\ mem' = <<>>                                  \* signedUrlCache.flushAll()
            /\ stats' = [hits |-> 0, misses |-> 0]
            /\ redisData' = IF IsReady(redisClient) THEN <<>> ELSE redisData
            /\ reads' = [H |-> 0, M |-> 0]
            /\ lastOp' = NoOp
    /\ UNCHANGED <<now, cfg, redisClient, req>>

-----------------------------------------------------------------------------
(* The Cache Service driven through its API *)

InitTiers ==
    /\ now = 0
    /\ cfg \in Configs
    /\ mem = <<>>
    /\ stats = [hits |-> 0, misses |-> 0]
    /\ redisClient = IF cfg.redisUrl THEN "connecting" ELSE "null"
    /\ redisData = <<>>
    /\ lastOp = NoOp
    /\ reads = [H |-> 0, M |-> 0]
    /\ req = [p \in Procs |-> Idle]
    /\ batch = NoBatch
    /\ urlBatch = NoUrlBatch
    /\ deletedAt = <<>>

InitCache == InitTiers /\ cfg.ttl = 1 /\ cfg.maxKeys = 2

\* the values written: the stringified response for the key's file, signed now
ValueNow(f) == Stringify(Response(f, now, now))

\* the entries lists of length n over distinct keys
BatchEntries(n) ==
    {[i \in 1..n |-> [key |-> KeyOf(fs[i]), value |-> ValueNow(fs[i])]] :
        fs \in {x \in [1..n -> Files] : \A i, j \in 1..n : x[i] = x[j] => i = j}}

NextCache ==
    \/ Tick /\ Quiet
    \/ Sweep /\ Quiet
    \/ RedisConnect /\ Quiet
    \/ RedisError /\ Quiet
    \/ \E f \in Files, fail \in {FALSE, IsReady(redisClient)} : CsGet(KeyOf(f), fail) /\ Quiet
    \/ \E f \in Files, fail \in {FALSE, IsReady(redisClient)} : CsSet(KeyOf(f), ValueNow(f), fail) /\ Quiet
    \/ \E f \in Files, fail \in {FALSE, IsReady(redisClient)} : CsDel(KeyOf(f), fail) /\ Quiet
    \/ \E n \in 1..MaxBatch, pipeFail \in {FALSE, IsReady(redisClient)} :
          \E entries \in BatchEntries(n),
             applied \in IF pipeFail THEN 0..n ELSE {0},
             fails \in IF IsReady(redisClient) THEN [1..n -> BOOLEAN]
                       ELSE {[i \in 1..n |-> FALSE]} :
              CsSetBatch(entries, pipeFail, applied, fails) /\ Quiet
    \/ \E pattern \in Patterns : ClearCache(pattern) /\ Quiet

SpecCache == InitCache /\ [][NextCache]_vars

(* The same in local-only mode: no REDIS_URL, so no Redis client *)

InitLocal == InitTiers /\ cfg.ttl = 1 /\ cfg.maxKeys = 2 /\ ~cfg.redisUrl

NextLocal ==
    \/ Tick /\ Quiet
    \/ Sweep /\ Quiet
    \/ \E f \in Files : CsGet(KeyOf(f), FALSE) /\ Quiet
    \/ \E f \in Files : CsSet(KeyOf(f), ValueNow(f), FALSE) /\ Quiet
    \/ \E f \in Files : CsDel(KeyOf(f), FALSE) /\ Quiet
    \/ \E n \in 1..MaxBatch :
          \E entries \in BatchEntries(n) :
              CsSetBatch(entries, FALSE, 0, [i \in 1..n |-> FALSE]) /\ Quiet
    \/ \E pattern \in Patterns : ClearCache(pattern) /\ Quiet

SpecLocal == InitLocal /\ [][NextLocal]_vars

(* The Cache Service with a Redis connection that comes and goes *)

\* the key lists read in one getBatch call
KeyLists(n) == [1..n -> {KeyOf(<<"a">>), KeyOf(<<"b">>)}]

\* the entries written in one setBatch call
DropEntries == <<[key |-> KeyOf(<<"b">>), value |-> ValueNow(<<"b">>)]>>

InitDrop == InitTiers /\ cfg.ttl = 1 /\ cfg.maxKeys = 2 /\ cfg.redisUrl

NextDrop ==
    \/ Tick /\ Quiet
    \/ RedisConnect /\ Quiet
    \/ RedisError /\ Quiet
    \/ \E fail \in {FALSE, IsReady(redisClient)} : CsGet(KeyOf(<<"a">>), fail) /\ Quiet
    \/ \E fail \in {FALSE, IsReady(redisClient)} :
          CsSet(KeyOf(<<"a">>), ValueNow(<<"a">>), fail) /\ Quiet
    \/ \E fail \in {FALSE, IsReady(redisClient)} : CsDel(KeyOf(<<"a">>), fail) /\ Quiet
    \/ \E pipeFail \in {FALSE, IsReady(redisClient)},
          fail \in {FALSE, IsReady(redisClient)} :
              CsSetBatch(DropEntries, pipeFail, 0, <<fail>>) /\ Quiet
    \/ \E applied \in {0, 1} : CsSetBatchDropped(DropEntries, applied) /\ Quiet
    \/ \E n \in 1..MaxBatch, pipeFail \in {FALSE, IsReady(redisClient)},
          dropped \in BOOLEAN :
          \E keys \in KeyLists(n),
             fails \in IF IsReady(redisClient) /\ ~dropped THEN [1..n -> BOOLEAN]
                       ELSE {[i \in 1..n |-> FALSE]} :
              CsGetBatch(keys, pipeFail, dropped, fails) /\ Quiet
    \/ ClearCache(<<>>) /\ Quiet

SpecDrop == InitDrop /\ [][NextDrop]_vars

-----------------------------------------------------------------------------
(* The issuance handlers.  GET /getSignedUrl and the per-file function of   *)
(* POST /getBatchSignedUrls run the same steps; each await of the handler   *)
(* ends a step.  The response (or the batch item's result) is observed in   *)
(* lastOp in the step that produces it.                                     *)

\* req.query.file / an element of req.body.files
RawFiles ==
    {[type |-> "string", s |-> <<"a">>], [type |-> "string", s |-> <<"a", ".", ".">>],
     [type |-> "string", s |-> <<" ">>], [type |-> "missing", s |-> <<>>],
     [type |-> "array", s |-> <<>>]}

\* the same with a second file
RawFiles2 == RawFiles \cup {[type |-> "string", s |-> <<"b">>]}

\* a validation without the blank test
InvalidFileNoBlankTest(raw) == raw.type # "string"

\* !file || typeof file !== 'string' || file.trim() === ''
InvalidFile(raw) == raw.type # "string" \/ Trim(raw.s) = <<>>

\* a test that lets the boundary instant through
FreshUpToBoundary(cached, t) == t <= cached.expiresAt - bufferTime

\* Date.now() < (expiryTime - bufferTime)
Fresh(cached, t) == t < cached.expiresAt - bufferTime

\* res.json / res.status(..).json, or the item's result in a batch: status 200 stands
\* for a result that carries a signedUrl, any other status for an error result
Respond(p, o) ==
    /\ lastOp' = o
    /\ req' = [req EXCEPT ![p] = Idle]

\* from the request to the end of `await CacheService.get(cacheKey)`
IssueGet(p, kind, raw, fail) ==
    /\ req[p].pc = "idle"
    /\ MayFail(fail)
    /\ IF InvalidFile(raw)
       THEN /\ Respond(p, [NoOp EXCEPT !.op = "response", !.kind = kind, !.status = 400])
            /\ UNCHANGED <<mem, stats, redisData>>
       ELSE LET file == Sanitize(raw.s)
                key == generateCacheKey(R2_BUCKET, file, OpGet)
                r == CacheServiceGet(Tiers, redisClient, fail, key, now)
                out == [NoOp EXCEPT !.op = "response", !.kind = kind, !.key = key]
            IN  /\ SetTiers(r.ts)
                /\ IF Truthy(r.val) /\ ParseThrows(r.val)
                   THEN Respond(p, [out EXCEPT !.status = 500])          \* catch
                   ELSE IF Truthy(r.val) /\ Fresh(Parse(r.val), now)
                   THEN Respond(p, [out EXCEPT !.status = 200, !.fromCache = TRUE,
                                               !.signedUrl = Parse(r.val).signedUrl,
                                               !.expiresAt = Parse(r.val).expiresAt])
                   ELSE /\ req' = [req EXCEPT ![p] =
                                     [pc |-> IF Truthy(r.val) THEN "del" ELSE "signing",
                                      kind |-> kind, file |-> file, key |-> key,
                                      signedAt |-> now]]
                        /\ lastOp' = NoOp
    /\ UNCHANGED <<now, cfg, redisClient, reads>>

\* the stale branch: `await CacheService.del(cacheKey)`, then the signing call starts
IssueDel(p, fail) ==
    /\ req[p].pc = "del"
    /\ MayFail(fail)
    /\ SetTiers(CacheServiceDel(Tiers, redisClient, fail, req[p].key))
    /\ req' = [req EXCEPT ![p].pc = "signing", ![p].signedAt = now]
    /\ lastOp' = [NoOp EXCEPT !.op = "purge", !.key = req[p].key]
    /\ UNCHANGED <<now, cfg, redisClient, reads>>

\* getSignedUrl(s3Client, ...) settles; on success the response is built and cached
IssueSigned(p, ok, fail) ==
    /\ req[p].pc = "signing"
    /\ MayFail(fail)
    /\ LET r == req[p]
           response == Response(r.file, r.signedAt, now)
           out == [NoOp EXCEPT !.op = "response", !.kind = r.kind, !.key = r.key]
       IN  IF ok
           THEN /\ SetTiers(CacheServiceSet(Tiers, redisClient, fail, r.key,
                                            Stringify(response), CACHE_TTL, now))
                /\ Respond(p, [out EXCEPT !.status = 200, !.signed = TRUE,
                                          !.signedUrl = response.signedUrl,
                                          !.expiresAt = response.expiresAt])
           ELSE /\ ~fail
                /\ Respond(p, [out EXCEPT !.status = 500])
                /\ UNCHANGED <<mem, stats, redisData>>
    /\ UNCHANGED <<now, cfg, redisClient, reads>>

-----------------------------------------------------------------------------
(* POST /api/signed-urls *)

ApiKeys == {<<"x">>, generateCacheKey(R2_BUCKET, <<"a">>, OpGet)}

\* cached.timestamp: the cached values are strings, which have no such property
Timestamp(v) == "undefined"

\* cached && (Date.now() - cached.timestamp) < CACHE_TTL * 1000; a subtraction from
\* undefined is NaN, and NaN < x is false
ApiCached(v, t) ==
    /\ Truthy(v)
    /\ Timestamp(v) # "undefined"
    /\ t - Timestamp(v) < CACHE_TTL

RECURSIVE ApiCheck(_, _, _, _)
\* keys.forEach: signedUrlCache.get(key), then cachedUrls or uncachedKeys
ApiCheck(m, st, keys, t) ==
    IF keys = <<>> THEN [mem |-> m, stats |-> st, uncached |-> <<>>]
    ELSE LET g == LocalGet(m, st, Head(keys), t)
             rest == ApiCheck(g.mem, g.stats, Tail(keys), t)
         IN  [rest EXCEPT !.uncached =
                  IF ApiCached(g.val, t) THEN @ ELSE <<Head(keys)>> \o @]

RECURSIVE ApiStore(_, _, _, _, _)
\* batchResults.forEach: signedUrlCache.set(result.key, result.url) for the successes;
\* a throw of set leaves the loops
ApiStore(m, keys, oks, ttl, t) ==
    IF keys = <<>> THEN [mem |-> m, threw |-> FALSE]
    ELSE IF ~Head(oks) THEN ApiStore(m, Tail(keys), Tail(oks), ttl, t)
    ELSE IF LocalSetThrows(m) THEN [mem |-> m, threw |-> TRUE]
    ELSE ApiStore(LocalSet(m, Head(keys), UrlString(SignedUrl(Head(keys), t)), ttl, t),
                  Tail(keys), Tail(oks), ttl, t)

\* the handler's body, its signing calls settled as `oks` says: the local tier
\* afterwards and the status of the response
ApiHandler(m, st, keys, oks, t) ==
    LET c == ApiCheck(m, st, keys, t)
        s == ApiStore(c.mem, c.uncached, oks, CACHE_TTL, t)
    IN  [mem |-> s.mem, stats |-> c.stats, uncached |-> c.uncached,
         status |-> IF s.threw THEN 500 ELSE 200,                \* catch: 500
         signed |-> \E i \in 1..Len(oks) : oks[i]]

\* the app.use / app.METHOD registrations of the modelled endpoints, in file order;
\* "*" is the 404 handler, which ends every request that reaches it
Routes ==
    <<"POST /clear-cache", "GET /getSignedUrl", "POST /getBatchSignedUrls", "*",
      "POST /invalidate-cache", "POST /api/signed-urls">>

RECURSIVE Dispatch(_, _)
\* the first registration that matches the request
Dispatch(routes, request) ==
    IF routes = <<>> THEN "none"
    ELSE IF Head(routes) \in {request, "*"} THEN Head(routes)
    ELSE Dispatch(Tail(routes), request)

\* a POST /api/signed-urls request
ApiSignedUrls(keys, oks) ==
    /\ IF Dispatch(Routes, "POST /api/signed-urls") = "*"
       THEN /\ lastOp' = [NoOp EXCEPT !.op = "response", !.kind = "api", !.status = 404]
            /\ UNCHANGED <<mem, stats>>
       ELSE LET h == ApiHandler(mem, stats, keys, oks, now)
            IN  /\ Len(oks) = Len(h.uncached)
                /\ mem' = h.mem
                /\ stats' = h.stats
                /\ lastOp' = [NoOp EXCEPT !.op = "response", !.kind = "api",
                                          !.status = h.status, !.signed = h.signed]
    /\ UNCHANGED <<now, cfg, redisClient, redisData, reads, req>>

-----------------------------------------------------------------------------
(* POST /getUploadUrl and POST /invalidate-cache *)

\* app.post('/getUploadUrl'): validation, the signing call (settled as `ok` says) and
\* the response; lastOp.key is the download cache key of the file, for observation
GetUploadUrl(raw, ok) ==
    /\ lastOp' = IF InvalidFile(raw)
                 THEN [NoOp EXCEPT !.op = "response", !.kind = "upload", !.status = 400]
                 ELSE [NoOp EXCEPT !.op = "response", !.kind = "upload",
                                   !.key = KeyOf(Sanitize(raw.s)),
                                   !.status = IF ok THEN 200 ELSE 500, !.signed = ok]
    /\ UNCHANGED <<now, cfg, mem, stats, redisClient, redisData, reads, req>>

\* a POST /invalidate-cache request; the handler calls CacheService.del and answers
InvalidateCache(raw, fail) ==
    /\ MayFail(fail)
    /\ IF Dispatch(Routes, "POST /invalidate-cache") = "*"
       THEN /\ lastOp' = [NoOp EXCEPT !.op = "response", !.kind = "invalidate",
                                      !.key = IF InvalidFile(raw) THEN <<>>
                                              ELSE KeyOf(Sanitize(raw.s)),
                                      !.status = 404]
            /\ UNCHANGED <<mem, stats, redisData>>
       ELSE IF InvalidFile(raw)
       THEN /\ lastOp' = [NoOp EXCEPT !.op = "response", !.kind = "invalidate",
                                      !.status = 400]
            /\ UNCHANGED <<mem, stats, redisData>>
       ELSE /\ SetTiers(CacheServiceDel(Tiers, redisClient, fail, KeyOf(Sanitize(raw.s))))
            /\ lastOp' = [NoOp EXCEPT !.op = "response", !.kind = "invalidate",
                                      !.key = KeyOf(Sanitize(raw.s)), !.status = 200]
    /\ UNCHANGED <<now, cfg, redisClient, reads, req>>

-----------------------------------------------------------------------------
(* The server *)

\* room for n more lookups of signedUrlCache under the cap
Lookups(n, cap) == stats.hits + stats.misses + n <= cap

Init == InitTiers

Next ==
    \/ Tick /\ Quiet
    \/ Sweep /\ Quiet
    \/ RedisConnect /\ Quiet
    \/ RedisError /\ Quiet
    \/ \E p \in Serial, kind \in {"single", "batch"}, raw \in RawFiles,
          fail \in {FALSE, IsReady(redisClient)} :
              Lookups(1, MaxLookups) /\ IssueGet(p, kind, raw, fail) /\ Quiet
    \/ \E p \in Serial, fail \in {FALSE, IsReady(redisClient)} : IssueDel(p, fail) /\ Quiet
    \/ \E p \in Serial, ok \in BOOLEAN, fail \in {FALSE, IsReady(redisClient)} :
          IssueSigned(p, ok, fail) /\ Quiet
    \/ \E pattern \in Patterns : ClearCache(pattern) /\ Quiet

Spec == Init /\ [][Next]_vars

(* The server in local-only mode, with two files and the other endpoints *)

InitApi == InitTiers /\ ~cfg.redisUrl

NextApi ==
    \/ Tick /\ Quiet
    \/ Sweep /\ Quiet
    \/ \E p \in Serial, kind \in {"single", "batch"}, raw \in RawFiles2 :
          Lookups(1, MaxApiLookups) /\ IssueGet(p, kind, raw, FALSE) /\ Quiet
    \/ \E p \in Serial : IssueDel(p, FALSE) /\ Quiet
    \/ \E p \in Serial, ok \in BOOLEAN : IssueSigned(p, ok, FALSE) /\ Quiet
    \/ \E n \in 1..MaxBatch : \E keys \in [1..n -> ApiKeys], oks \in [1..n -> BOOLEAN] :
          ApiSignedUrls(keys, oks) /\ Quiet
    \/ \E pattern \in Patterns : ClearCache(pattern) /\ Quiet
    \/ \E raw \in RawFiles2, ok \in BOOLEAN : GetUploadUrl(raw, ok) /\ Quiet
    \/ \E raw \in RawFiles2 : InvalidateCache(raw, FALSE) /\ Quiet

SpecApi == InitApi /\ [][NextApi]_vars

-----------------------------------------------------------------------------
(* POST /getBatchSignedUrls: the loop over waves.  The per-file function of  *)
(* a wave's tasks runs in the request slots 1..Len(wave), with the steps of *)
(* IssueGet, IssueDel and IssueSigned.                                       *)

\* the elements of req.body.files
BatchItems ==
    {[type |-> "string", s |-> <<"a">>], [type |-> "string", s |-> <<"b">>],
     [type |-> "string", s |-> <<" ">>]}

\* req.body.batchSize, which the handler uses as it comes: JSON numbers, and a string
BatchSizes ==
    {[type |-> "number", n |-> 0], [type |-> "number", n |-> 1],
     [type |-> "number", n |-> 2], [type |-> "string", n |-> 1]}

\* Number(i + batchSize): the sum of two numbers; with a one-digit string batchSize,
\* `+` appends the digit to the decimal text of i
Plus(i, size) == IF size.type = "string" THEN i * 10 + size.n ELSE i + size.n

\* files.slice(start, end), for indices from 0
Slice(files, start, end) ==
    IF start >= Len(files) \/ end <= start THEN <<>>
    ELSE SubSeq(files, start + 1, IF end < Len(files) THEN end ELSE Len(files))

\* what a task resolves with: the response or the cached entry (success: true), the
\* validation's { file, error } (no success property), the catch's success: false
ItemResult(raw, o) ==
    [file |-> raw.s,
     success |-> IF o.status = 200 THEN "true"
                 ELSE IF o.status = 400 THEN "undefined" ELSE "false",
     fromCache |-> o.fromCache]

\* batch.map(async (file) => ...): the tasks of the wave that starts at index i
StartWave(b, i) ==
    LET wave == Slice(b.files, i, Plus(i, b.size))
    IN  [b EXCEPT !.pc = "wave", !.i = i, !.wave = wave,
                  !.task = [k \in 1..Len(wave) |-> "start"],
                  !.out = [k \in 1..Len(wave) |-> ItemResult(wave[k], NoOp)]]

\* every wave of the request finds a request slot for each of its tasks
WavesFit(files, size) ==
    \/ Len(files) <= Cardinality(Procs)
    \/ IF size.type = "string" THEN Len(files) <= size.n + Cardinality(Procs)
       ELSE size.n <= Cardinality(Procs)

\* the request arrives: validation of req.body.files, then the first wave
BatchRequest(files, size) ==
    /\ batch.pc \in {"idle", "done"}
    /\ WavesFit(files, size)
    /\ batch' = IF files = <<>>
                THEN [NoBatch EXCEPT !.pc = "done", !.status = 400]
                ELSE StartWave([NoBatch EXCEPT !.files = files, !.size = size], 0)
    /\ lastOp' = NoOp
    /\ UNCHANGED <<now, cfg, mem, stats, redisClient, redisData, reads, req, urlBatch, deletedAt>>

\* the task in slot p has taken a step: it goes on, or has resolved with a result
Collect(p) ==
    batch' = IF req'[p].pc = "idle"
             THEN [batch EXCEPT !.task[p] = "done",
                                !.out[p] = ItemResult(batch.wave[p], lastOp')]
             ELSE [batch EXCEPT !.task[p] = "running"]

BatchItemGet(p) ==
    /\ batch.pc = "wave" /\ p \in 1..Len(batch.wave)
    /\ batch.task[p] = "start"
    /\ IssueGet(p, "batch", batch.wave[p], FALSE)
    /\ Collect(p)
    /\ UNCHANGED <<urlBatch, deletedAt>>

BatchItemDel(p) ==
    /\ batch.pc = "wave" /\ p \in 1..Len(batch.wave)
    /\ batch.task[p] = "running"
    /\ IssueDel(p, FALSE)
    /\ Collect(p)
    /\ UNCHANGED <<urlBatch, deletedAt>>

BatchItemSigned(p, ok) ==
    /\ batch.pc = "wave" /\ p \in 1..Len(batch.wave)
    /\ batch.task[p] = "running"
    /\ IssueSigned(p, ok, FALSE)
    /\ Collect(p)
    /\ UNCHANGED <<urlBatch, deletedAt>>

\* batchResults.forEach: success !== false goes to results, the rest to errors
Partition(out) ==
    [results |-> SelectSeq(out, LAMBDA r : r.success # "false"),
     errors |-> SelectSeq(out, LAMBDA r : r.success = "false")]

\* Promise.all(batchPromises) resolves; the results are split; then the delay before
\* the next wave, or the end of the loop and res.json
BatchWaveEnd ==
    /\ batch.pc = "wave"
    /\ \A k \in 1..Len(batch.wave) : batch.task[k] = "done"
    /\ LET part == Partition(batch.out)
           b == [batch EXCEPT !.results = @ \o part.results,
                              !.errors = @ \o part.errors,
                              !.wave = <<>>, !.task = <<>>, !.out = <<>>]
       IN  batch' = IF Plus(batch.i, batch.size) < Len(batch.files)
                    THEN [b EXCEPT !.pc = "delay"]
                    ELSE [b EXCEPT !.pc = "done", !.status = 200]
    /\ lastOp' = NoOp
    /\ UNCHANGED <<now, cfg, mem, stats, redisClient, redisData, reads, req, urlBatch, deletedAt>>

\* the delay's timer fires: i += batchSize, and the next wave starts
BatchDelay ==
    /\ batch.pc = "delay"
    /\ batch' = StartWave(batch, Plus(batch.i, batch.size))
    /\ lastOp' = NoOp
    /\ UNCHANGED <<now, cfg, mem, stats, redisClient, redisData, reads, req, urlBatch, deletedAt>>

\* the lists of length 1..n over the batch items, and the empty list
FileLists(n) == UNION {[1..k -> BatchItems] : k \in 0..n}

InitBatch == InitTiers /\ ~cfg.redisUrl /\ cfg.maxKeys = 2

NextBatch ==
    \/ Tick /\ Quiet
    \/ Sweep /\ Quiet
    \/ \E files \in FileLists(MaxFiles), size \in BatchSizes :
          Lookups(Len(files), MaxApiLookups) /\ BatchRequest(files, size)
    \/ \E p \in Procs : BatchItemGet(p)
    \/ \E p \in Procs : BatchItemDel(p)
    \/ \E p \in Procs, ok \in BOOLEAN : BatchItemSigned(p, ok)
    \/ BatchWaveEnd
    \/ BatchDelay

SpecBatch == InitBatch /\ [][NextBatch]_vars

-----------------------------------------------------------------------------
(* generateSignedUrl(key, retries = 3) and processUrlBatch(keys, batchIndex) *)

DefaultRetries == 3

\* how the signing call of an attempt settles: it resolves, or rejects with an error
\* of that name
SignOutcomes == {"ok", "TooManyRequestsException", "NoSuchKey"}

\* a retry test that also retries with no retries left
ShouldRetryAtZero(name, retries) == name = "TooManyRequestsException" /\ retries >= 0

\* error.name === 'TooManyRequestsException' && retries > 0
ShouldRetry(name, retries) == name = "TooManyRequestsException" /\ retries > 0

\* (4 - retries) * 1000 ms
Backoff(retries) == (4 - retries) * 1000

\* a generateSignedUrl(key) call at its first attempt; `waits` and `errors` record the
\* backoff delays and the rejections so far
NewCall(key) ==
    [key |-> key, pc |-> "signing", retries |-> DefaultRetries, attempts |-> 1,
     waits |-> <<>>, errors |-> <<>>, result |-> "none"]

\* processUrlBatch is called: the delay when batchIndex > 0, else the calls start
ProcessUrlBatch(keys, batchIndex) ==
    /\ urlBatch.pc = "idle"
    /\ urlBatch' = IF batchIndex > 0
                   THEN [pc |-> "delay", calls |-> [k \in 1..Len(keys) |-> NewCall(keys[k])]]
                   ELSE [pc |-> "running", calls |-> [k \in 1..Len(keys) |-> NewCall(keys[k])]]
    /\ UNCHANGED <<now, cfg, mem, stats, redisClient, redisData, lastOp, reads, req, batch, deletedAt>>

\* the BATCH_DELAY timer fires: keys.map(key => generateSignedUrl(key))
UrlBatchDelay ==
    /\ urlBatch.pc = "delay"
    /\ urlBatch' = [urlBatch EXCEPT !.pc = "running"]
    /\ UNCHANGED <<now, cfg, mem, stats, redisClient, redisData, lastOp, reads, req, batch, deletedAt>>

\* the signing call of call k settles: the result, or the catch with its retry test
SignSettles(k, outcome) ==
    /\ urlBatch.pc = "running" /\ k \in 1..Len(urlBatch.calls)
    /\ urlBatch.calls[k].pc = "signing"
    /\ LET c == urlBatch.calls[k]
       IN  urlBatch' = [urlBatch EXCEPT !.calls[k] =
               IF outcome = "ok" THEN [c EXCEPT !.pc = "done", !.result = "success"]
               ELSE IF ShouldRetry(outcome, c.retries)
               THEN [c EXCEPT !.pc = "waiting", !.errors = Append(@, outcome),
                              !.waits = Append(@, Backoff(c.retries))]
               ELSE [c EXCEPT !.pc = "done", !.errors = Append(@, outcome),
                              !.result = outcome]]
    /\ UNCHANGED <<now, cfg, mem, stats, redisClient, redisData, lastOp, reads, req, batch, deletedAt>>

\* the backoff timer fires: return generateSignedUrl(key, retries - 1)
BackoffElapsed(k) ==
    /\ urlBatch.pc = "running" /\ k \in 1..Len(urlBatch.calls)
    /\ urlBatch.calls[k].pc = "waiting"
    /\ urlBatch' = [urlBatch EXCEPT !.calls[k].pc = "signing",
                                    !.calls[k].retries = @ - 1,
                                    !.calls[k].attempts = @ + 1]
    /\ UNCHANGED <<now, cfg, mem, stats, redisClient, redisData, lastOp, reads, req, batch, deletedAt>>

\* Promise.all(promises) resolves with the per-key results
UrlBatchReturns ==
    /\ urlBatch.pc = "running"
    /\ \A k \in 1..Len(urlBatch.calls) : urlBatch.calls[k].pc = "done"
    /\ urlBatch' = NoUrlBatch
    /\ UNCHANGED <<now, cfg, mem, stats, redisClient, redisData, lastOp, reads, req, batch, deletedAt>>

InitRetry == InitTiers /\ ~cfg.redisUrl /\ cfg.ttl = 1 /\ cfg.maxKeys = 1

NextRetry ==
    \/ \E n \in 1..MaxBatch : \E keys \in [1..n -> ApiKeys], batchIndex \in {0, 1} :
          ProcessUrlBatch(keys, batchIndex)
    \/ UrlBatchDelay
    \/ \E k \in 1..MaxBatch, outcome \in SignOutcomes : SignSettles(k, outcome)
    \/ \E k \in 1..MaxBatch : BackoffElapsed(k)
    \/ UrlBatchReturns

SpecRetry == InitRetry /\ [][NextRetry]_vars

-----------------------------------------------------------------------------
(* DELETE /deleteFile, and requests that overlap.  A request slot holds    *)
(* either an issuance or a deletion in flight; each await ends a step.     *)

\* from the request to the start of `await s3Client.send(DeleteObjectCommand)`
DeleteStart(p, raw) ==
    /\ req[p].pc = "idle"
    /\ IF InvalidFile(raw)
       THEN Respond(p, [NoOp EXCEPT !.op = "response", !.kind = "delete", !.status = 400])
       ELSE /\ req' = [req EXCEPT ![p] =
                         [pc |-> "deleting", kind |-> "delete", file |-> Sanitize(raw.s),
                          key |-> generateCacheKey(R2_BUCKET, Sanitize(raw.s), OpGet),
                          signedAt |-> now]]
            /\ lastOp' = NoOp
    /\ UNCHANGED <<now, cfg, mem, stats, redisClient, redisData, reads, deletedAt>>

\* s3Client.send settles; on success `await CacheService.del(cacheKey)` and res.json
DeleteSettles(p, ok, fail) ==
    /\ req[p].pc = "deleting"
    /\ MayFail(fail)
    /\ LET out == [NoOp EXCEPT !.op = "response", !.kind = "delete", !.key = req[p].key]
       IN  IF ok
           THEN /\ SetTiers(CacheServiceDel(Tiers, redisClient, fail, req[p].key))
                /\ Respond(p, [out EXCEPT !.status = 200])
                /\ deletedAt' = Put(deletedAt, req[p].key, now)
           ELSE /\ ~fail
                /\ Respond(p, [out EXCEPT !.status = 500])               \* catch
                /\ UNCHANGED <<mem, stats, redisData, deletedAt>>
    /\ UNCHANGED <<now, cfg, redisClient, reads>>

\* the step belongs to no batch
NoBatches == UNCHANGED <<batch, urlBatch>>

(* Two request slots in local-only mode *)

InitRace == InitTiers /\ ~cfg.redisUrl

NextRace ==
    \/ Tick /\ Quiet
    \/ Sweep /\ Quiet
    \/ \E p \in Procs, raw \in RawFiles :
          Lookups(1, MaxApiLookups) /\ IssueGet(p, "single", raw, FALSE) /\ Quiet
    \/ \E p \in Procs : IssueDel(p, FALSE) /\ Quiet
    \/ \E p \in Procs, ok \in BOOLEAN : IssueSigned(p, ok, FALSE) /\ Quiet
    \/ \E p \in Procs, raw \in RawFiles : DeleteStart(p, raw) /\ NoBatches
    \/ \E p \in Procs, ok \in BOOLEAN : DeleteSettles(p, ok, FALSE) /\ NoBatches

SpecRace == InitRace /\ [][NextRace]_vars

-----------------------------------------------------------------------------
(* Properties of the Cache Service API *)

\* the key is resident in the local tier and not expired
Held(key) == key \in DOMAIN mem /\ ~Expired(mem[key], now)

\* the Redis outcomes a call made in this state can meet
Outcomes == {FALSE, IsReady(redisClient)}

\* C3 (write durability floor): from every reachable state in which the local tier
\* has free capacity, CacheService.set(key, value, ttl) leaves key -> value resident
\* in the local tier, whatever the distributed tier does (absent, not ready,
\* succeeding, or rejecting setEx).
C3_SetAlwaysReachesLocalTier ==
    \A f \in Files, fail \in Outcomes :
        ~LocalSetThrows(mem) =>
            LET after == CacheServiceSet(Tiers, redisClient, fail, KeyOf(f),
                                         ValueNow(f), CACHE_TTL, now)
            IN  /\ KeyOf(f) \in DOMAIN after.mem
                /\ after.mem[KeyOf(f)].v = ValueNow(f)

\* C4 (read fallback): from every reachable state in which the local tier holds an
\* unexpired value for a key, CacheService.get(key) returns a value, never null,
\* also when the distributed tier is ready and its get rejects.
C4_GetFallsBackToLocalTier ==
    \A f \in Files, fail \in Outcomes :
        Held(KeyOf(f)) =>
            Truthy(CacheServiceGet(Tiers, redisClient, fail, KeyOf(f), now).val)

\* C5 (invalidate): from every reachable state, after CacheService.del(key) the
\* local tier does not hold key, whatever the distributed tier does (absent, not
\* ready, deleting, or rejecting del).
C5_DelAlwaysClearsLocalTier ==
    \A f \in Files, fail \in Outcomes :
        KeyOf(f) \notin DOMAIN CacheServiceDel(Tiers, redisClient, fail, KeyOf(f)).mem

\* C9 (batch write completeness): from every reachable state with room in the local
\* tier for N new entries, after CacheService.setBatch over N entries with distinct
\* keys each key is retrievable with CacheService.get and yields its written value,
\* also when the pipeline rejects part-way and the fallback's setEx calls reject.
C9_SetBatchKeepsEveryEntry ==
    \A n \in 1..MaxBatch, pipeFail \in Outcomes :
        \A entries \in BatchEntries(n),
           applied \in IF pipeFail THEN 0..n ELSE {0},
           fails \in [1..n -> Outcomes] :
            Cardinality(DOMAIN mem) + n <= MAX_CACHE_KEYS =>
                LET after == CacheServiceSetBatch(Tiers, redisClient, pipeFail, applied,
                                                  fails, entries, CACHE_TTL, now)
                IN  \A i \in 1..n :
                        CacheServiceGet(after, redisClient, FALSE, entries[i].key, now).val
                            = entries[i].value

\* C10 (hit-rate accounting): after Cache Service reads of which H were hits and M
\* misses, getStats().memory.hitRate is H / (H + M), and 0 when H = M = 0, whichever
\* tier served the hits.
C10_HitRateCountsEveryRead ==
    LET rate == getStats.memory.hitRate
    IN  IF reads.H + reads.M = 0
        THEN rate.num = 0
        ELSE rate.num * (reads.H + reads.M) = reads.H * rate.den

\* s occurs in key as a contiguous run of characters
Contains(key, s) ==
    \E i \in 1..Len(key) : \E j \in i..Len(key) : SubSeq(key, i, j) = s

\* C8 (pattern invalidation exactness): POST /clear-cache with a non-empty pattern s
\* removes from the local tier exactly the resident keys that contain s, reports
\* their number as clearedKeys, and leaves every other resident key and its value
\* unchanged.
C8_PatternClearsExactlyMatches ==
    [][lastOp'.op = "clearPattern" =>
          LET gone == {k \in DOMAIN mem : Contains(k, lastOp'.pattern)}
          IN  /\ DOMAIN mem' = DOMAIN mem \ gone
              /\ lastOp'.cleared = Cardinality(gone)
              /\ \A k \in DOMAIN mem' : mem'[k] = mem[k]]_vars

\* a pattern clear has removed one key and kept another
C8_Witness ==
    /\ lastOp.op = "clearPattern"
    /\ lastOp.cleared >= 1
    /\ \E k \in DOMAIN mem : ~Contains(k, lastOp.pattern)

-----------------------------------------------------------------------------
(* Properties of the issuance handlers *)

\* C1 (freshness): whenever GET /getSignedUrl or a POST /getBatchSignedUrls item
\* answers from the cache (fromCache = true), the entry's recorded expiresAt lies
\* more than the 5-minute buffer after the current time: now < expiresAt - buffer.
C1_CachedResponsesAreFresh ==
    (lastOp.op = "response" /\ lastOp.fromCache) =>
        /\ lastOp.kind \in {"single", "batch"}
        /\ lastOp.expiresAt - now > bufferTime

\* an entry served from the cache at its last fresh instant
C1_Witness ==
    /\ lastOp.op = "response"
    /\ lastOp.fromCache
    /\ lastOp.expiresAt - now = bufferTime + 1

\* C2 (stale purge): right after the purge step of a read that found a stale entry
\* (CacheService.del, before the re-issue write) the entry is absent from the local
\* tier and from the distributed tier, whatever state the distributed tier is in.
C2_PurgeEmptiesBothTiers ==
    lastOp.op = "purge" =>
        /\ lastOp.key \notin DOMAIN mem
        /\ lastOp.key \notin DOMAIN redisData

\* C6 (cache failures never fail issuance): in GET /getSignedUrl, in a batch item and
\* in the POST /api/signed-urls handler, a request for which a signing call succeeded
\* is answered with success, whatever the cache tiers do (Redis errors, local tier at
\* MAX_CACHE_KEYS when the write is attempted).
C6_SignedUrlIsAlwaysDelivered ==
    /\ (lastOp.op = "response" /\ lastOp.signed) => lastOp.status = 200
    /\ \A n \in 1..MaxBatch : \A keys \in [1..n -> ApiKeys], oks \in [1..n -> BOOLEAN] :
           LET h == ApiHandler(mem, stats, keys, oks, now)
           IN  (Len(oks) = Len(h.uncached) /\ h.signed) => h.status = 200

\* C7 (repeat issuance is a hit): when GET /getSignedUrl has just succeeded for a key
\* and is called again for it at once (within the TTL, nothing invalidated), the
\* second call is answered from the cache with the same signedUrl, also when the local
\* tier already holds MAX_CACHE_KEYS other entries.
C7_RepeatIssuanceIsHit ==
    [][(/\ lastOp.op = "response" /\ lastOp.kind = "single" /\ lastOp.status = 200
        /\ \A p \in Procs : req[p].pc = "idle")
       => /\ \A p \in Procs :
                 ~(req'[p].pc # "idle" /\ req'[p].kind = "single"
                   /\ req'[p].key = lastOp.key)
          /\ (lastOp'.op = "response" /\ lastOp'.kind = "single"
              /\ lastOp'.key = lastOp.key)
                 => (lastOp'.fromCache /\ lastOp'.signedUrl = lastOp.signedUrl)]_vars

-----------------------------------------------------------------------------
(* Properties of the statistics and of the local tier's capacity *)

\* C11 (monotonic statistics): over any sequence of reads, writes, single-key and
\* pattern invalidations and clear-all requests, the hits and the misses reported by
\* getStats() never decrease from one state to the next.
C11_StatsNeverDecrease ==
    [][/\ getStats'.memory.hits >= getStats.memory.hits
       /\ getStats'.memory.misses >= getStats.memory.misses]_vars

\* the local tier after the writes of POST /api/signed-urls, run on the current state
ApiWrites ==
    {ApiHandler(mem, stats, keys, oks, now).mem :
        keys \in [1..MaxBatch -> ApiKeys], oks \in [1..MaxBatch -> BOOLEAN]}

\* C12 (capacity): in every reachable state, and after the /api/signed-urls writes
\* run on it, the local tier holds at most MAX_CACHE_KEYS entries, whatever sequence
\* of set and setBatch calls (the issuance handlers write through set) came before.
C12_LocalTierWithinCeiling ==
    /\ Cardinality(DOMAIN mem) <= MAX_CACHE_KEYS
    /\ \A m \in ApiWrites : Cardinality(DOMAIN m) <= MAX_CACHE_KEYS

\* the local tier is at its ceiling and a key that is not resident exists
C12_Witness ==
    /\ Cardinality(DOMAIN mem) = MAX_CACHE_KEYS
    /\ \E f \in Files : KeyOf(f) \notin DOMAIN mem

\* C13 (overflow evicts and inserts): from every reachable state in which the local
\* tier holds MAX_CACHE_KEYS entries, CacheService.set with a key that is not resident
\* leaves that key resident in the local tier.
C13_SetAtCeilingInserts ==
    \A f \in Files :
        (Cardinality(DOMAIN mem) >= MAX_CACHE_KEYS /\ KeyOf(f) \notin DOMAIN mem) =>
            KeyOf(f) \in DOMAIN CacheServiceSet(Tiers, redisClient, FALSE, KeyOf(f),
                                                ValueNow(f), CACHE_TTL, now).mem

\* C14 (idempotent invalidation): from every reachable state, for a cached or a never
\* cached key, the tiers after CacheService.del called twice in succession equal the
\* tiers after the first call, whatever Redis answers to each call.
C14_DelTwiceEqualsDelOnce ==
    \A f \in Files, fail1 \in Outcomes, fail2 \in Outcomes :
        LET once == CacheServiceDel(Tiers, redisClient, fail1, KeyOf(f))
        IN  CacheServiceDel(once, redisClient, fail2, KeyOf(f)) = once

-----------------------------------------------------------------------------
(* Properties of the invalidating endpoints *)

\* C19 (upload invalidates): right after POST /getUploadUrl has succeeded for a file,
\* neither tier holds a signed download-URL entry for that file (so that the next
\* GET /getSignedUrl for it is a miss).
C19_UploadLeavesNoEntry ==
    (lastOp.op = "response" /\ lastOp.kind = "upload" /\ lastOp.status = 200) =>
        /\ ~Held(lastOp.key)
        /\ lastOp.key \notin DOMAIN redisData

\* C20 (the invalidate endpoint works): a POST /invalidate-cache request with a valid
\* file is answered with success by the invalidation handler, and afterwards no tier
\* holds the file's entry.
C20_InvalidateEndpointDeletes ==
    (lastOp.op = "response" /\ lastOp.kind = "invalidate" /\ lastOp.key # <<>>) =>
        /\ lastOp.status = 200
        /\ ~Held(lastOp.key)
        /\ lastOp.key \notin DOMAIN redisData

-----------------------------------------------------------------------------
(* Properties of input validation *)

\* the path is missing, not a string, or blank after trimming
Malformed(raw) == raw.type # "string" \/ \A i \in 1..Len(raw.s) : raw.s[i] = " "

\* C17 (invalid input is rejected before side effects): a GET /getSignedUrl request
\* or a batch item with a malformed path ends in a failure result in its first step,
\* without a cache read, write or delete and without a signing call being started.
C17_MalformedPathHasNoEffects ==
    [][\A p \in Serial, kind \in {"single", "batch"}, raw \in RawFiles :
          (Malformed(raw) /\ IssueGet(p, kind, raw, FALSE)) =>
              /\ lastOp'.op = "response" /\ lastOp'.status # 200
              /\ req'[p].pc = "idle"
              /\ UNCHANGED <<mem, stats, redisData>>]_vars

\* a malformed path has been answered with a failure
C17_Witness ==
    /\ lastOp.op = "response"
    /\ lastOp.kind \in {"single", "batch"}
    /\ lastOp.status = 400

-----------------------------------------------------------------------------
(* Properties of batch issuance *)

\* the signing calls of the batch request that have not settled yet
Outstanding == {p \in Procs : req[p].pc = "signing"}

\* C15 (wave throttling): while a wave of POST /getBatchSignedUrls runs, the tasks of
\* the earlier waves have all resolved and no later wave has started, so the number
\* of signing calls outstanding is at most the request's batchSize.
C15_WaveCapsOutstandingSigning ==
    batch.pc = "wave" =>
        /\ Outstanding \subseteq 1..Len(batch.wave)
        /\ Cardinality(Outstanding) <= batch.size.n

\* C16 (per-item outcome partition): in the answer to an accepted batch request every
\* item appears once; the items of `errors` (counted in stats.failed) are exactly the
\* ones that failed (invalid path or failed signing), the items of `results` are the
\* ones that carry a signed URL.
C16_ErrorsAreExactlyTheFailures ==
    (batch.pc = "done" /\ batch.status = 200) =>
        /\ Len(batch.results) + Len(batch.errors) = Len(batch.files)
        /\ \A k \in 1..Len(batch.results) : batch.results[k].success = "true"
        /\ \A k \in 1..Len(batch.errors) : batch.errors[k].success # "true"

-----------------------------------------------------------------------------
(* Properties of generateSignedUrl *)

\* what is left of a call: the attempts it may still make, and its pending step
Rank(c) == IF c.pc = "done" THEN 0
           ELSE 2 * c.retries + (IF c.pc = "signing" THEN 2 ELSE 1)

\* C18 (bounded retry): a generateSignedUrl call makes at most 4 signing attempts; it
\* waits only after a rate-limit rejection, each wait longer than the one before; any
\* other rejection ends it at once; every step of a call brings it nearer to its end,
\* and it ends with a per-key result (success, or the error), never with a throw.
C18_RetryIsBounded ==
    [][\A k \in 1..Len(urlBatch'.calls) :
          LET c == urlBatch'.calls[k]
          IN  /\ c.attempts <= 4
              /\ Len(c.waits) <= 3
              /\ \A i \in 1..(Len(c.waits) - 1) : c.waits[i] < c.waits[i + 1]
              /\ \A i \in 1..(Len(c.errors) - 1) :
                     c.errors[i] = "TooManyRequestsException"
              /\ c.pc = "waiting" => c.errors[Len(c.errors)] = "TooManyRequestsException"
              /\ c.pc = "done" <=> c.result # "none"
              /\ (urlBatch.pc = "running" /\ c # urlBatch.calls[k]) =>
                     Rank(c) < Rank(urlBatch.calls[k])]_vars

\* a call has ended in failure after its fourth attempt, all rate-limited
C18_Witness ==
    \E k \in 1..Len(urlBatch.calls) :
        /\ urlBatch.calls[k].pc = "done"
        /\ urlBatch.calls[k].attempts = 4
        /\ urlBatch.calls[k].result = "TooManyRequestsException"

-----------------------------------------------------------------------------
(* The Redis adapter, local-only mode, key derivation, recorded expiry *)

\* C21 (adapter state transition on error): a CacheService.get whose Redis command
\* rejects while the client is ready leaves the client not ready, so that the
\* operations that follow skip the distributed tier.
C21_FailedCommandDisconnects ==
    [][\A f \in Files :
          (IsReady(redisClient) /\ CsGet(KeyOf(f), TRUE)) => ~IsReady(redisClient')]_vars

\* the tiers after a call that only the local tier serves
LocalOnlySet(key, value) ==
    IF LocalSetThrows(mem) THEN Tiers
    ELSE [Tiers EXCEPT !.mem = LocalSet(mem, key, value, CACHE_TTL, now)]

\* C22 (local-only mode): without REDIS_URL getStats().redis is "disconnected" in
\* every reachable state, the distributed tier is never written, and every get,
\* set and del is exactly the local tier's get, set and del.
C22_LocalOnlyNeverUsesRedis ==
    /\ getStats.redis = "disconnected"
    /\ redisData = <<>>
    /\ \A f \in Files, fail \in BOOLEAN :
          LET key == KeyOf(f)
              g == CacheServiceGet(Tiers, redisClient, fail, key, now)
              l == LocalGet(mem, stats, key, now)
          IN  /\ g.val = l.val
              /\ g.tier \in {"memory", "miss"}
              /\ g.ts = [Tiers EXCEPT !.mem = l.mem, !.stats = l.stats]
              /\ CacheServiceSet(Tiers, redisClient, fail, key, ValueNow(f), CACHE_TTL, now)
                    = LocalOnlySet(key, ValueNow(f))
              /\ CacheServiceDel(Tiers, redisClient, fail, key)
                    = [Tiers EXCEPT !.mem = LocalDel(mem, key)]

\* a value was written and read back from the local tier in local-only mode
C22_Witness ==
    /\ ~cfg.redisUrl
    /\ reads.H > 0
    /\ stats.hits > 0
    /\ mem # <<>>

\* C23 (key derivation is deterministic and pure): generateCacheKey gives
\* r2:{operation}:{bucket}:{path} for its arguments in every state, whatever the
\* cache holds and whatever the time is, and the same string after every step.
C23_KeyDerivationIsPure ==
    [][/\ generateCacheKey(<<"B">>, <<"a">>, <<"g", "e", "t">>)
            = <<"r", "2", ":", "g", "e", "t", ":", "B", ":", "a">>
       /\ generateCacheKey(<<"B">>, <<"a", "b">>, <<"p", "u", "t">>)
            = <<"r", "2", ":", "p", "u", "t", ":", "B", ":", "a", "b">>
       /\ \A f \in Files, op \in {OpGet, <<"p", "u", "t">>} :
             generateCacheKey(R2_BUCKET, f, op)' = generateCacheKey(R2_BUCKET, f, op)]_vars

\* the key was derived and used while the clock moved and the cache changed
C23_Witness ==
    /\ now > 0
    /\ stats.hits > 0
    /\ generateCacheKey(R2_BUCKET, <<"a">>, OpGet) \in DOMAIN mem

\* C24 (recorded expiry matches the signed lifetime): the expiresAt of a cached
\* response is never later than the instant its URL was signed plus
\* SIGNED_URL_EXPIRY.
C24_ExpiresAtWithinSignedLifetime ==
    \A k \in DOMAIN mem :
        mem[k].v.kind = "json" => mem[k].v.expiresAt <= mem[k].v.url[2] + SIGNED_URL_EXPIRY

-----------------------------------------------------------------------------
(* Requests that overlap *)

\* C25 (eventually cached under concurrent misses): when the last of the requests
\* in flight for a key has signed and answered, with room for the key in the local
\* tier, the key is resident there with that last writer's entry, and an issuance
\* that follows is a hit.
C25_LastWriterIsResident ==
    (/\ lastOp.op = "response" /\ lastOp.signed /\ lastOp.status = 200
     /\ \A p \in Procs : req[p].pc = "idle"
     /\ Cardinality(DOMAIN mem \ {lastOp.key}) < MAX_CACHE_KEYS)
    => /\ Held(lastOp.key)
       /\ Parse(mem[lastOp.key].v).signedUrl = lastOp.signedUrl
       /\ LET g == CacheServiceGet(Tiers, redisClient, FALSE, lastOp.key, now)
          IN  Truthy(g.val) /\ ~ParseThrows(g.val) /\ Fresh(Parse(g.val), now)

\* C28 (delete invalidates under interleaving): after /deleteFile has answered
\* success for a file, no GET /getSignedUrl for it is answered fromCache = true
\* with a URL that was signed before that deletion.
C28_NoCachedUrlFromBeforeDelete ==
    (/\ lastOp.op = "response" /\ lastOp.fromCache /\ lastOp.status = 200
     /\ lastOp.key \in DOMAIN deletedAt)
    => lastOp.signedUrl[2] >= deletedAt[lastOp.key]

-----------------------------------------------------------------------------
(* Batch reads and the dropped client *)

\* C26 (batch read matches single reads): for every key list and every state of
\* the tiers, getBatch(keys) maps each key to what get(key) returns in that state
\* and omits exactly the keys for which get returns null.
C26_GetBatchAgreesWithGet ==
    \A n \in 0..MaxBatch : \A keys \in KeyLists(n) :
        LET b == CacheServiceGetBatch(Tiers, redisClient, FALSE, redisClient,
                                      [i \in 1..n |-> FALSE], keys, now).results
        IN  \A i \in 1..n :
                LET g == CacheServiceGet(Tiers, redisClient, FALSE, keys[i], now).val
                IN  IF Truthy(g) THEN keys[i] \in DOMAIN b /\ b[keys[i]] = g
                    ELSE keys[i] \notin DOMAIN b

\* C29 (no use of a dropped client): every step in which a Redis command takes
\* effect or a read is served by Redis starts with redisClient non-null and ready,
\* wherever the 'error' event falls among the Cache Service operations.
C29_RedisCalledOnlyWhenReady ==
    [][/\ (redisData' # redisData /\ now' = now) => redisClient = "ready"
       /\ (reads'.H > reads.H /\ stats' = stats) => redisClient = "ready"]_vars

\* the client was dropped while Redis held data, and the Cache Service was read after
C29_Witness ==
    /\ redisClient = "null"
    /\ cfg.redisUrl
    /\ redisData # <<>>
    /\ reads.H + reads.M > 0
    /\ lastOp.op = "getBatch"

-----------------------------------------------------------------------------
(* Termination of the batch loop, reuse by /api/signed-urls *)

\* C27 (batch issuance terminates and covers every file once): for every batchSize
\* the caller supplies, each new wave of POST /getBatchSignedUrls starts further
\* along the files than the wave before it and is not empty, and the answer counts
\* every file once: results and errors together are as many as the files.
C27_BatchLoopAdvances ==
    [][/\ (batch.pc = "delay" /\ batch'.pc = "wave") =>
             (batch'.i > batch.i /\ batch'.wave # <<>>)
       /\ (batch.pc = "wave" /\ batch'.pc = "done" /\ batch'.status = 200) =>
             Len(batch'.results) + Len(batch'.errors) = Len(batch'.files)]_vars

\* C30 (/api/signed-urls reuses cached URLs): a key that one invocation of the
\* handler signed and cached is served from the cache, not signed again, by an
\* invocation that follows within CACHE_TTL.
C30_ApiServesWhatItCached ==
    \A k \in ApiKeys :
        LET first == ApiHandler(mem, stats, <<k>>, <<TRUE>>, now)
            again == ApiCheck(first.mem, first.stats, <<k>>, now)
        IN  (first.status = 200 /\ k \in DOMAIN first.mem /\ first.mem[k].v.kind = "url")
                => again.uncached = <<>>

====
